---- MODULE Spec2Model ----
(***************************************************************************)
(* Model of dropbox_renamer/rename_files_with_date.py: the date-prefix     *)
(* naming rule (has_date_prefix, get_folder_creation_date,                 *)
(* get_renamed_path), the per-file download (download_and_rename_file),   *)
(* the recursive, paginated traversal (process_dropbox_folder), and the   *)
(* path resolution of main (clean_dropbox_path, find_folder_path).         *)
(*                                                                         *)
(* Strings are sequences of one-character strings, so that regular        *)
(* expression matching, os.path.basename, os.path.join and strftime are   *)
(* computed character by character.  An absent value (Python None, or a   *)
(* missing attribute) is the empty sequence.                               *)
(***************************************************************************)
EXTENDS Integers, Sequences, FiniteSets, TLC

(***************************************************************************)
(* Bounds                                                                  *)
(***************************************************************************)
\* longest suffix appended to a name stem when naming inputs are drawn
MaxTail == 2

(***************************************************************************)
(* Characters and strings                                                  *)
(***************************************************************************)
DigitChars == <<"0", "1", "2", "3", "4", "5", "6", "7", "8", "9">>

\* the characters the regular expression class \d accepts
IsDigit(c) == \E i \in 1..10 : DigitChars[i] = c

\* the characters the regular expression class \s accepts
IsSpace(c) == c \in {" ", "\t", "\n", "\r"}

\* index of the last "/" of p, 0 when there is none (str.rfind + 1)
RECURSIVE LastSlash(_, _)
LastSlash(p, i) ==
    IF i = 0 THEN 0
    ELSE IF p[i] = "/" THEN i
    ELSE LastSlash(p, i - 1)

\* os.path.basename: what follows the last "/"
Basename(p) == SubSeq(p, LastSlash(p, Len(p)) + 1, Len(p))

\* os.path.dirname: what precedes the last "/" (trailing slashes stripped
\* unless the head is all slashes; heads here never are)
Dirname(p) ==
    LET i == LastSlash(p, Len(p))
    IN  IF i <= 1 THEN SubSeq(p, 1, i) ELSE SubSeq(p, 1, i - 1)

\* os.path.join(a, b) of posixpath
PathJoin(a, b) ==
    IF Len(b) > 0 /\ b[1] = "/" THEN b
    ELSE IF Len(a) = 0 \/ a[Len(a)] = "/" THEN a \o b
    ELSE a \o <<"/">> \o b

\* str.endswith('/')
EndsWithSlash(s) == Len(s) > 0 /\ s[Len(s)] = "/"

(***************************************************************************)
(* Dates: <<year, month, day>>; the absent date is <<>>                    *)
(***************************************************************************)
NoDate == <<>>

\* datetime.strftime("%Y%m%d") for a four-digit year
Strftime(d) ==
    << DigitChars[(d[1] \div 1000) + 1],
       DigitChars[((d[1] \div 100) % 10) + 1],
       DigitChars[((d[1] \div 10) % 10) + 1],
       DigitChars[(d[1] % 10) + 1],
       DigitChars[(d[2] \div 10) + 1],
       DigitChars[(d[2] % 10) + 1],
       DigitChars[(d[3] \div 10) + 1],
       DigitChars[(d[3] % 10) + 1] >>

\* datetime.__lt__
DateLess(a, b) ==
    \/ a[1] < b[1]
    \/ a[1] = b[1] /\ a[2] < b[2]
    \/ a[1] = b[1] /\ a[2] = b[2] /\ a[3] < b[3]

(***************************************************************************)
(* has_date_prefix: re.match(r'^(19|20)\d{6}(?:\s+|$)', name)              *)
(***************************************************************************)
\* variant: the "$" alternative is missing, whitespace must follow
has_date_prefix_no_end(name) ==
    /\ Len(name) >= 9
    /\ \/ name[1] = "1" /\ name[2] = "9"
       \/ name[1] = "2" /\ name[2] = "0"
    /\ \A i \in 3..8 : IsDigit(name[i])
    /\ IsSpace(name[9])

\* variant: nothing is required after the eight digits
has_date_prefix_any_follow(name) ==
    /\ Len(name) >= 8
    /\ \/ name[1] = "1" /\ name[2] = "9"
       \/ name[1] = "2" /\ name[2] = "0"
    /\ \A i \in 3..8 : IsDigit(name[i])

has_date_prefix(name) ==
    /\ Len(name) >= 8
    /\ \/ name[1] = "1" /\ name[2] = "9"
       \/ name[1] = "2" /\ name[2] = "0"
    /\ \A i \in 3..8 : IsDigit(name[i])
    /\ \/ Len(name) = 8
       \/ IsSpace(name[9])

(***************************************************************************)
(* get_folder_creation_date(dbx, path).  The remote store seen by the     *)
(* call is the record dbx:                                                 *)
(*   list_raises     files_list_folder(path) raises                        *)
(*   entries         the first page: a sequence of [is_file,               *)
(*                   server_modified]                                      *)
(*   later           the entries of the pages after the first; has_more   *)
(*                   is true on the first page when there are any          *)
(*   meta_raises     files_get_metadata(path) raises                       *)
(*   client_modified the folder metadata's client_modified attribute,     *)
(*                   as a one-element sequence, <<>> if there is none      *)
(*   shared_raises   sharing_get_folder_metadata(path) raises              *)
(*   time_created    its time_created attribute, likewise                  *)
(* now is the value of datetime.datetime.now().                            *)
(***************************************************************************)
RECURSIVE OldestDate(_, _)
OldestDate(entries, oldest) ==
    IF entries = <<>> THEN oldest
    ELSE LET e == Head(entries)
         IN  IF e.is_file /\ (oldest = NoDate \/ DateLess(e.server_modified, oldest))
             THEN OldestDate(Tail(entries), e.server_modified)
             ELSE OldestDate(Tail(entries), oldest)

get_folder_creation_date(dbx, now) ==
    IF dbx.list_raises THEN now
    ELSE LET oldest_date == OldestDate(dbx.entries, NoDate)
         IN  IF dbx.entries # <<>> /\ oldest_date # NoDate THEN oldest_date
             ELSE IF dbx.meta_raises THEN now
             ELSE IF dbx.client_modified # <<>> THEN dbx.client_modified[1]
             ELSE IF ~dbx.shared_raises /\ dbx.time_created # <<>>
                  THEN dbx.time_created[1]
             ELSE now

(***************************************************************************)
(* get_renamed_path(metadata, path, is_folder, dbx)                        *)
(*   metadata  [server_modified |-> date or NoDate]                        *)
(*   dbx       <<>> for None, else a one-element sequence holding the     *)
(*             remote store record above                                   *)
(* Results are [raised, value]: raised tells that an exception left the   *)
(* call, value is the returned string otherwise.                           *)
(***************************************************************************)
Returns(v) == [raised |-> FALSE, value |-> v]
Raises == [raised |-> TRUE, value |-> <<>>]

\* the body of the try block; strftime on an absent date raises
renamed_path_try(metadata, path, is_folder, dbx, now) ==
    LET original_name == Basename(path)
        date_obj == IF is_folder
                    THEN IF dbx # <<>> THEN get_folder_creation_date(dbx[1], now)
                         ELSE now
                    ELSE metadata.server_modified
    IN  IF has_date_prefix(original_name) THEN Returns(original_name)
        ELSE IF date_obj = NoDate THEN Raises
        ELSE LET new_name == Strftime(date_obj) \o <<" ">> \o original_name
             IN  IF is_folder /\ ~EndsWithSlash(new_name)
                 THEN Returns(new_name \o <<"/">>)
                 ELSE Returns(new_name)

\* variant: no except clause, the exception leaves the call
get_renamed_path_no_except(metadata, path, is_folder, dbx, now) ==
    renamed_path_try(metadata, path, is_folder, dbx, now)

get_renamed_path(metadata, path, is_folder, dbx, now) ==
    LET r == renamed_path_try(metadata, path, is_folder, dbx, now)
    IN  IF r.raised THEN Returns(Basename(path)) ELSE r

(***************************************************************************)
(* The local path download_and_rename_file hands to                        *)
(* files_download_to_file, given the metadata files_get_metadata returned *)
(***************************************************************************)
download_local_path(metadata, dropbox_path, local_dir) ==
    LET original_name == Basename(dropbox_path)
    IN  IF has_date_prefix(original_name)
        THEN Returns(PathJoin(local_dir, original_name))
        ELSE LET new_name == get_renamed_path(metadata, dropbox_path, FALSE, <<>>, NoDate)
             IN  IF new_name.raised THEN Raises
                 ELSE Returns(PathJoin(local_dir, new_name.value))

(***************************************************************************)
(* State                                                                   *)
(***************************************************************************)
VARIABLES
    present,    \* remote store: the entries (indices of Universe) that exist
    faulty,     \* remote store and file system: the calls that raise
    stack,      \* active calls of process_dropbox_folder, innermost first
    trace,      \* calls made so far, in order
    errors,     \* error messages printed so far, in order
    dirs,       \* local file system: directories that exist
    files,      \* local file system: <<local path, remote path written to it>>
    n_pc,       \* naming rule applied in isolation: position
    n_path,     \*   path argument
    n_is_folder,\*   is_folder argument
    n_metadata, \*   metadata argument
    n_dbx,      \*   dbx argument
    n_now,      \*   the clock
    n_local_dir,\*   local_dir argument of download_and_rename_file
    n_out,      \*   results obtained so far, in order
    p_pc,       \* path resolution in main: position
    p_arg,      \*   the --dropbox-folder argument
    p_store,    \*   remote store: what its lookups and its root listing give
    p_clean,    \*   result of clean_dropbox_path
    p_found,    \*   result of find_folder_path
    p_calls,    \*   remote calls find_folder_path made, in order
    p_path      \*   dropbox_path handed to process_dropbox_folder

tvars == <<present, faulty, stack, trace, errors, dirs, files>>
nvars == <<n_pc, n_path, n_is_folder, n_metadata, n_dbx, n_now, n_local_dir, n_out>>
pvars == <<p_pc, p_arg, p_store, p_clean, p_found, p_calls, p_path>>
vars == <<present, faulty, stack, trace, errors, dirs, files,
          n_pc, n_path, n_is_folder, n_metadata, n_dbx, n_now, n_local_dir, n_out,
          p_pc, p_arg, p_store, p_clean, p_found, p_calls, p_path>>

\* path resolution is not running
IdleResolution ==
    /\ p_pc = "idle"
    /\ p_arg = <<>>
    /\ p_store = <<>>
    /\ p_clean = <<>>
    /\ p_found = <<>>
    /\ p_calls = <<>>
    /\ p_path = <<>>

(***************************************************************************)
(* Inputs of the naming rule                                               *)
(***************************************************************************)
Date1 == <<2023, 5, 17>>
Date2 == <<1999, 12, 31>>
Date3 == <<2024, 1, 1>>
Dates == {Date1, Date2, Date3}

TailChars == {"a", " ", "7", "/"}

RECURSIVE Tails(_)
Tails(n) ==
    IF n = 0 THEN {<<>>}
    ELSE LET shorter == Tails(n - 1)
         IN  shorter \cup {Append(t, c) : t \in shorter, c \in TailChars}

Stems ==
    { <<>>,
      <<"2", "0", "2", "4", "0", "1", "0", "1">>,
      <<"1", "9", "9", "9", "1", "2", "3", "1">>,
      <<"2", "0", "2", "4", "0", "1", "0">>,
      <<"2", "1", "2", "4", "0", "1", "0", "1">>,
      <<"2", "0", "2", "4", "0", "1", "0", "1", "\t">>,
      <<"x", "2", "0", "2", "4", "0", "1", "0", "1">> }

Names == {s \o t : s \in Stems, t \in Tails(MaxTail)}

\* paths of entries: the last segment, the entry's name, is not empty
EntryPaths ==
    {p \in Names \cup {<<"/", "C", "/">> \o n : n \in Names} : Basename(p) # <<>>}

Metadatas == [server_modified : Dates \cup {NoDate}]

DbxStores ==
    [ list_raises : BOOLEAN,
      entries : {<<>>, <<[is_file |-> TRUE, server_modified |-> Date2]>>},
      later : {<<>>},
      meta_raises : {FALSE},
      client_modified : {<<>>, <<NoDate>>},
      shared_raises : {FALSE},
      time_created : {<<>>} ]

\* the date sources a call may be given: file metadata, or a store and a clock
DateSources ==
    { [metadata |-> m, dbx |-> <<>>, now |-> Date1] : m \in Metadatas }
    \cup { [metadata |-> [server_modified |-> NoDate], dbx |-> d, now |-> Date1] :
             d \in {<<>>} \cup {<<x>> : x \in DbxStores} }

LocalRoot == <<"L">>

(***************************************************************************)
(* The naming rule applied in isolation                                    *)
(***************************************************************************)
IdleTraversal ==
    /\ present = {}
    /\ faulty = {}
    /\ stack = <<>>
    /\ trace = <<>>
    /\ errors = <<>>
    /\ dirs = {}
    /\ files = {}

NameInit ==
    /\ IdleTraversal
    /\ IdleResolution
    /\ n_pc = "call"
    /\ n_path \in EntryPaths
    /\ n_is_folder \in BOOLEAN
    /\ \E src \in DateSources :
         /\ (src.dbx # <<>> => n_is_folder)
         /\ n_metadata = src.metadata
         /\ n_dbx = src.dbx
         /\ n_now = src.now
    /\ n_local_dir = <<>>
    /\ n_out = <<>>

\* get_renamed_path(metadata, path, is_folder, dbx)
NameRename ==
    /\ n_pc = "call"
    /\ n_out' = <<get_renamed_path(n_metadata, n_path, n_is_folder, n_dbx, n_now)>>
    /\ n_pc' = "renamed"
    /\ UNCHANGED <<n_path, n_is_folder, n_metadata, n_dbx, n_now, n_local_dir>>
    /\ UNCHANGED tvars
    /\ UNCHANGED pvars

\* get_renamed_path applied to the name it returned, for an entry of the
\* same kind, with any date source
NameRenameAgain ==
    /\ n_pc = "renamed"
    /\ ~n_out[1].raised
    /\ \E src \in DateSources :
         /\ (src.dbx # <<>> => n_is_folder)
         /\ n_out' = Append(n_out, get_renamed_path(src.metadata, n_out[1].value,
                                                    n_is_folder, src.dbx, src.now))
    /\ n_pc' = "again"
    /\ UNCHANGED <<n_path, n_is_folder, n_metadata, n_dbx, n_now, n_local_dir>>
    /\ UNCHANGED tvars
    /\ UNCHANGED pvars

\* the local path download_and_rename_file(dbx, path, local_dir) downloads to
NameDownload ==
    /\ n_pc = "call"
    /\ ~n_is_folder
    /\ n_local_dir' \in {LocalRoot, <<"L", "/">>}
    /\ n_out' = <<download_local_path(n_metadata, n_path, n_local_dir')>>
    /\ n_pc' = "downloaded"
    /\ UNCHANGED <<n_path, n_is_folder, n_metadata, n_dbx, n_now>>
    /\ UNCHANGED tvars
    /\ UNCHANGED pvars

NameNext == NameRename \/ NameRenameAgain \/ NameDownload

NameSpec == NameInit /\ [][NameNext]_vars

(***************************************************************************)
(* Properties of the naming rule (checked under NameSpec)                  *)
(***************************************************************************)
\* "19" or "20", six digits, then whitespace or the end of the string
DatePattern(b) ==
    /\ Len(b) >= 8
    /\ SubSeq(b, 1, 2) \in {<<"1", "9">>, <<"2", "0">>}
    /\ \A i \in 3..8 : b[i] \in {"0", "1", "2", "3", "4", "5", "6", "7", "8", "9"}
    /\ (Len(b) > 8 => b[9] \in {" ", "\t", "\n", "\r"})

\* the number a digit string denotes
RECURSIVE DigitsValue(_)
DigitsValue(ds) ==
    IF ds = <<>> THEN 0
    ELSE 10 * DigitsValue(SubSeq(ds, 1, Len(ds) - 1))
         + (CHOOSE v \in 0..9 : DigitChars[v + 1] = ds[Len(ds)])

\* s is date d written YYYYMMDD, one space, then b, and nothing else
DatedName(s, d, b) ==
    /\ Len(s) = 9 + Len(b)
    /\ \A i \in 1..8 : IsDigit(s[i])
    /\ DigitsValue(SubSeq(s, 1, 4)) = d[1]
    /\ DigitsValue(SubSeq(s, 5, 6)) = d[2]
    /\ DigitsValue(SubSeq(s, 7, 8)) = d[3]
    /\ s[9] = " "
    /\ SubSeq(s, 10, Len(s)) = b

\* C1: a base name that matches the date-prefix pattern is returned
\* unchanged by get_renamed_path, for a file and for a folder, and the file
\* is downloaded to local_dir joined with that unchanged base name.
C1_PrefixedNameUnchanged ==
    LET b == Basename(n_path)
    IN  DatePattern(b) =>
          /\ n_pc = "renamed" => n_out[1] = Returns(b)
          /\ n_pc = "downloaded" => n_out[1] = Returns(PathJoin(n_local_dir, b))

C1_Witness ==
    /\ n_pc = "downloaded"
    /\ DatePattern(Basename(n_path))
    /\ Len(Basename(n_path)) = 8
    /\ Len(n_path) > 8

DateUnavailable ==
    IF n_is_folder
    THEN n_dbx # <<>> /\ get_folder_creation_date(n_dbx[1], n_now) = NoDate
    ELSE n_metadata.server_modified = NoDate
\* C3: idempotence of the naming rule: get_renamed_path applied to the name
\* it returned, for an entry of the same kind (file or folder) and with any
\* date source, returns that same name again, no prefix added and no
\* character changed.  Stated for the entries whose date the first call
\* could compute, so that a violation is one of the rule itself and not of
\* the fallback to the bare name.
C3_Idempotent ==
    (n_pc = "again" /\ ~DateUnavailable) => n_out[2] = n_out[1]

\* C10: no exception leaves get_renamed_path; when the date cannot be
\* computed (the metadata has no last-modified timestamp, or the folder
\* date is absent) it returns the unmodified base name of the path, and the
\* file is downloaded to local_dir joined with its original base name.
C10_FallbackToBaseName ==
    /\ n_pc = "renamed" =>
         /\ ~n_out[1].raised
         /\ DateUnavailable => n_out[1].value = Basename(n_path)
    /\ (n_pc = "downloaded" /\ DateUnavailable) =>
         n_out[1] = Returns(PathJoin(n_local_dir, Basename(n_path)))

C10_Witness ==
    /\ n_pc = "downloaded"
    /\ n_metadata.server_modified = NoDate
    /\ ~DatePattern(Basename(n_path))
    /\ Len(Basename(n_path)) > 0
    /\ n_out[1] = Returns(PathJoin(n_local_dir, Basename(n_path)))

(***************************************************************************)
(* The remote tree.  Universe lists every entry a run may meet, in the    *)
(* order the remote store lists the entries of a folder; parent is the    *)
(* index of the containing folder, 0 for the start folder.  A run works   *)
(* on the entries of present.                                              *)
(***************************************************************************)
\* most entries of Universe present in one run
MaxEntries == 4
\* most calls that raise in one run
MaxFaults == 2

StartPath == <<"/", "C">>
DeadFile == <<"D", "E", "A", "D", " ", "f", "i", "l", "e">>

Universe ==
    << [name |-> <<"a">>, is_file |-> TRUE, server_modified |-> Date1, parent |-> 0],
       [name |-> DeadFile, is_file |-> FALSE, server_modified |-> NoDate, parent |-> 0],
       [name |-> <<"x">>, is_file |-> TRUE, server_modified |-> Date3, parent |-> 2],
       [name |-> <<"s">>, is_file |-> FALSE, server_modified |-> NoDate, parent |-> 0],
       [name |-> <<"2", "0", "2", "4", "0", "1", "0", "1", " ", "b">>,
        is_file |-> TRUE, server_modified |-> Date2, parent |-> 4],
       [name |-> DeadFile, is_file |-> FALSE, server_modified |-> NoDate, parent |-> 4],
       [name |-> <<"y">>, is_file |-> TRUE, server_modified |-> Date1, parent |-> 6],
       [name |-> <<"t">>, is_file |-> FALSE, server_modified |-> NoDate, parent |-> 4],
       [name |-> DeadFile, is_file |-> TRUE, server_modified |-> Date3, parent |-> 8],
       [name |-> <<"n">>, is_file |-> TRUE, server_modified |-> NoDate, parent |-> 4],
       [name |-> <<"2", "0", "2", "4", "0", "1", "0", "1", "z">>,
        is_file |-> TRUE, server_modified |-> Date3, parent |-> 0],
       [name |-> <<"b">>, is_file |-> TRUE, server_modified |-> Date3, parent |-> 4] >>

Entries == 1..Len(Universe)

\* path_display of an entry
RECURSIVE PathOf(_)
PathOf(i) ==
    IF i = 0 THEN StartPath
    ELSE PathOf(Universe[i].parent) \o <<"/">> \o Universe[i].name

\* the folder's entries that exist, in listing order
RECURSIVE ChildrenFrom(_, _, _)
ChildrenFrom(folder, i, exist) ==
    IF i > Len(Universe) THEN <<>>
    ELSE IF i \in exist /\ Universe[i].parent = folder
         THEN <<i>> \o ChildrenFrom(folder, i + 1, exist)
         ELSE ChildrenFrom(folder, i + 1, exist)

Children(folder) == ChildrenFrom(folder, 1, present)

\* the trees a run may work on: with an entry, its folder
Trees ==
    { t \in SUBSET Entries :
        /\ Cardinality(t) <= MaxEntries
        /\ \A i \in t : Universe[i].parent = 0 \/ Universe[i].parent \in t }

IsDeadFolder(i) == ~Universe[i].is_file /\ Universe[i].name = DeadFile

\* the entry lies below a folder named "DEAD file"
RECURSIVE UnderDead(_)
UnderDead(i) ==
    /\ i # 0
    /\ LET p == Universe[i].parent
       IN  p # 0 /\ (IsDeadFolder(p) \/ UnderDead(p))

\* the calls that may raise: <<call, entry>>, entry 0 being the start
\* folder; only calls the traversal can come to make are drawn
FaultPoints(t) ==
    LET folders == {j \in t : ~Universe[j].is_file /\ ~IsDeadFolder(j) /\ ~UnderDead(j)}
        leaves == {j \in t : Universe[j].is_file /\ ~UnderDead(j)}
    IN  { <<"files_list_folder", i>> : i \in {0} \cup folders }
        \cup { <<"files_list_folder_continue", i>> : i \in {0} \cup folders }
        \cup { <<"makedirs", i>> : i \in folders }
        \cup { <<"files_get_metadata", i>> : i \in leaves }
        \cup { <<"files_download_to_file", i>> : i \in leaves }

(***************************************************************************)
(* Calls and messages                                                      *)
(***************************************************************************)
Call(op, path, local) == [op |-> op, path |-> path, local |-> local]
Message(kind, path) == [kind |-> kind, path |-> path]

\* a directory and the directories above it, as os.makedirs creates them
RECURSIVE WithParents(_)
WithParents(d) ==
    IF LastSlash(d, Len(d)) = 0 THEN {d}
    ELSE {d} \cup WithParents(Dirname(d))

(***************************************************************************)
(* process_dropbox_folder                                                  *)
(***************************************************************************)
Frame(entry, dropbox_path, local_dir) ==
    [ entry |-> entry, dropbox_path |-> dropbox_path, local_dir |-> local_dir,
      listed |-> FALSE, first |-> TRUE, page |-> <<>>, cursor |-> <<>>,
      has_more |-> FALSE ]

\* folder_name == "DEAD file"
\* variant: no folder is skipped
is_dead_file_never(folder_name) == FALSE

\* variant: the test is inverted
is_dead_file_inverted(folder_name) == folder_name # DeadFile

is_dead_file(folder_name) == folder_name = DeadFile

\* os.path.join(local_dir, folder_name)
new_local_dir_of(local_dir, folder_name) == PathJoin(local_dir, folder_name)

\* while result.has_more
\* variant: continuation pages are not fetched
loops_never(result) == FALSE

loops(result) == result.has_more

\* except clause of download_and_rename_file: the message is printed and
\* the call returns; the caller's loop goes on
\* variant: no except clause, the caller's except clause ends its call
file_error_propagates(stk) == Tail(stk)

file_error_handler(stk) == stk

\* except clause of process_dropbox_folder: the message is printed and this
\* call returns; the caller's loop goes on
\* variant: no except clause, the exception unwinds every call
folder_error_propagates(stk) == <<>>

folder_error_handler(stk) == Tail(stk)

\* sizes of the page the remote store may return when ch is still to come
PageSizes(ch) == IF ch = <<>> THEN {0} ELSE 1..Len(ch)

Top == stack[1]

Init ==
    /\ present \in Trees
    /\ faulty \in {f \in SUBSET FaultPoints(present) : Cardinality(f) <= MaxFaults}
    /\ stack = <<Frame(0, StartPath, LocalRoot)>>
    /\ trace = <<>>
    /\ errors = <<>>
    /\ dirs = {LocalRoot}
    /\ files = {}
    /\ IdleResolution
    /\ n_pc = "idle"
    /\ n_path = <<>>
    /\ n_is_folder = FALSE
    /\ n_metadata = [server_modified |-> NoDate]
    /\ n_dbx = <<>>
    /\ n_now = Date1
    /\ n_local_dir = <<>>
    /\ n_out = <<>>

\* result = dbx.files_list_folder(dropbox_path)
ListFolder ==
    /\ stack # <<>>
    /\ ~Top.listed
    /\ trace' = Append(trace, Call("files_list_folder", Top.dropbox_path, <<>>))
    /\ IF <<"files_list_folder", Top.entry>> \in faulty
       THEN /\ errors' = Append(errors, Message("folder", Top.dropbox_path))
            /\ stack' = folder_error_handler(stack)
       ELSE /\ \E k \in PageSizes(Children(Top.entry)) :
                 LET ch == Children(Top.entry)
                 IN  stack' = <<[Top EXCEPT !.listed = TRUE,
                                            !.first = TRUE,
                                            !.page = SubSeq(ch, 1, k),
                                            !.cursor = SubSeq(ch, k + 1, Len(ch)),
                                            !.has_more = k < Len(ch)]>> \o Tail(stack)
            /\ errors' = errors
    /\ UNCHANGED <<present, faulty, dirs, files>>
    /\ UNCHANGED nvars
    /\ UNCHANGED pvars

\* download_and_rename_file(dbx, entry_path, local_dir); stk is the stack
\* once the loop has moved past the entry
DownloadAndRenameFile(i, entry_path, local_dir, stk) ==
    LET called == Call("download_and_rename_file", entry_path, local_dir)
        metadata == [server_modified |-> Universe[i].server_modified]
        local_path == download_local_path(metadata, entry_path, local_dir)
        renaming == IF ~has_date_prefix(Basename(entry_path))
                       /\ renamed_path_try(metadata, entry_path, FALSE, <<>>, NoDate).raised
                    THEN <<Message("rename", entry_path)>>
                    ELSE <<>>
        failed == Message("file", entry_path)
    IN  /\ dirs' = dirs
        /\ IF <<"files_get_metadata", i>> \in faulty
           THEN /\ trace' = Append(trace, called)
                /\ errors' = Append(errors, failed)
                /\ files' = files
                /\ stack' = file_error_handler(stk)
           ELSE IF local_path.raised
           THEN /\ trace' = Append(trace, called)
                /\ errors' = errors \o renaming \o <<failed>>
                /\ files' = files
                /\ stack' = file_error_handler(stk)
           ELSE /\ trace' = trace \o <<called, Call("files_download_to_file",
                                                    entry_path, local_path.value)>>
                /\ IF \/ <<"files_download_to_file", i>> \in faulty
                      \/ Dirname(local_path.value) \notin dirs
                   THEN /\ errors' = errors \o renaming \o <<failed>>
                        /\ files' = files
                        /\ stack' = file_error_handler(stk)
                   ELSE /\ errors' = errors \o renaming
                        /\ files' = {f \in files : f[1] # local_path.value}
                                    \cup {<<local_path.value, entry_path>>}
                        /\ stack' = stk

\* the folder branch of the loop body: skip "DEAD file", else
\* ensure_directory_exists(new_local_dir) and the recursive call
EnterFolder(i, entry_path, local_dir, stk) ==
    LET folder_name == Basename(entry_path)
        new_local_dir == new_local_dir_of(local_dir, folder_name)
    IN  /\ files' = files
        /\ IF is_dead_file(folder_name)
           THEN /\ trace' = Append(trace, Call("skip", entry_path, <<>>))
                /\ errors' = errors
                /\ dirs' = dirs
                /\ stack' = stk
           ELSE /\ trace' = trace \o
                      << Call("ensure_directory_exists", entry_path, new_local_dir),
                         Call("process_dropbox_folder", entry_path, new_local_dir) >>
                /\ IF <<"makedirs", i>> \in faulty
                   THEN /\ errors' = Append(errors, Message("directory", new_local_dir))
                        /\ dirs' = dirs
                   ELSE /\ errors' = errors
                        /\ dirs' = dirs \cup WithParents(new_local_dir)
                /\ stack' = <<Frame(i, entry_path, new_local_dir)>> \o stk

\* the body of a loop "for entry in result.entries", for the entry at the
\* head of the page
LoopBody ==
    LET i == Head(Top.page)
        entry_path == PathOf(i)
        stk == <<[Top EXCEPT !.page = Tail(@)]>> \o Tail(stack)
    IN  IF Universe[i].is_file
        THEN DownloadAndRenameFile(i, entry_path, Top.local_dir, stk)
        ELSE EnterFolder(i, entry_path, Top.local_dir, stk)

\* one iteration of the loop over the first page
ProcessFirstPageEntry ==
    /\ stack # <<>>
    /\ Top.listed
    /\ Top.first
    /\ Top.page # <<>>
    /\ LoopBody
    /\ UNCHANGED <<present, faulty>>
    /\ UNCHANGED nvars
    /\ UNCHANGED pvars

\* one iteration of the loop over a page fetched by cursor
ProcessContinuationEntry ==
    /\ stack # <<>>
    /\ Top.listed
    /\ ~Top.first
    /\ Top.page # <<>>
    /\ LoopBody
    /\ UNCHANGED <<present, faulty>>
    /\ UNCHANGED nvars
    /\ UNCHANGED pvars

\* while result.has_more: result = dbx.files_list_folder_continue(result.cursor)
ListFolderContinue ==
    /\ stack # <<>>
    /\ Top.listed
    /\ Top.page = <<>>
    /\ loops(Top)
    /\ trace' = Append(trace, Call("files_list_folder_continue", Top.dropbox_path, <<>>))
    /\ IF <<"files_list_folder_continue", Top.entry>> \in faulty
       THEN /\ errors' = Append(errors, Message("folder", Top.dropbox_path))
            /\ stack' = folder_error_handler(stack)
       ELSE /\ \E k \in PageSizes(Top.cursor) :
                 stack' = <<[Top EXCEPT !.first = FALSE,
                                        !.page = SubSeq(Top.cursor, 1, k),
                                        !.cursor = SubSeq(Top.cursor, k + 1, Len(Top.cursor)),
                                        !.has_more = k < Len(Top.cursor)]>> \o Tail(stack)
            /\ errors' = errors
    /\ UNCHANGED <<present, faulty, dirs, files>>
    /\ UNCHANGED nvars
    /\ UNCHANGED pvars

\* the loops are over: process_dropbox_folder returns
ReturnFromFolder ==
    /\ stack # <<>>
    /\ Top.listed
    /\ Top.page = <<>>
    /\ ~loops(Top)
    /\ stack' = Tail(stack)
    /\ UNCHANGED <<present, faulty, trace, errors, dirs, files>>
    /\ UNCHANGED nvars
    /\ UNCHANGED pvars

Next ==
    \/ ListFolder
    \/ ProcessFirstPageEntry
    \/ ListFolderContinue
    \/ ProcessContinuationEntry
    \/ ReturnFromFolder

Spec == Init /\ [][Next]_vars

(***************************************************************************)
(* Properties of the traversal (checked under Spec)                        *)
(***************************************************************************)
\* the call of main to process_dropbox_folder has returned
Done == stack = <<>>

\* number of calls op made for the remote path
Count(op, path) ==
    Cardinality({k \in 1..Len(trace) : trace[k].op = op /\ trace[k].path = path})

\* every folder between the start folder and the entry exists and is not
\* named "DEAD file"
RECURSIVE Reachable(_)
Reachable(i) ==
    \/ i = 0
    \/ /\ i \in present
       /\ LET p == Universe[i].parent
          IN  (p = 0 \/ ~IsDeadFolder(p)) /\ Reachable(p)

\* the loop body ran once for the entry
Processed(i) ==
    IF Universe[i].is_file THEN Count("download_and_rename_file", PathOf(i)) = 1
    ELSE IF IsDeadFolder(i) THEN Count("skip", PathOf(i)) = 1
    ELSE /\ Count("ensure_directory_exists", PathOf(i)) = 1
         /\ Count("process_dropbox_folder", PathOf(i)) = 1

\* no message about the file
NoFileError(i) == \A k \in 1..Len(errors) : errors[k] # Message("file", PathOf(i))

\* process_dropbox_folder was called for the folder
Visited(i) == i = 0 \/ Count("process_dropbox_folder", PathOf(i)) = 1

\* no listing of the folder raised
Intact(i) == \A k \in 1..Len(errors) : errors[k] # Message("folder", PathOf(i))

NoListFaults ==
    \A f \in faulty : f[1] \notin {"files_list_folder", "files_list_folder_continue"}

\* the local directory of a folder when folders keep their names
RECURSIVE MirrorDir(_)
MirrorDir(i) ==
    IF i = 0 THEN LocalRoot
    ELSE MirrorDir(Universe[i].parent) \o <<"/">> \o Universe[i].name

\* the local name of a file by the naming rule
RuleName(i) ==
    IF DatePattern(Universe[i].name) \/ Universe[i].server_modified = NoDate
    THEN Universe[i].name
    ELSE Strftime(Universe[i].server_modified) \o <<" ">> \o Universe[i].name

MirrorPath(i) == MirrorDir(Universe[i].parent) \o <<"/">> \o RuleName(i)

\* C4: in a run in which no call fails, every file reachable from the start
\* folder through folders not named "DEAD file" is downloaded exactly once,
\* and ensure_directory_exists is called exactly once for each remote
\* folder visited below the start folder.
C4_EachEntryOnce ==
    (Done /\ faulty = {}) =>
        \A i \in present :
            /\ (Universe[i].is_file /\ Reachable(i)) =>
                 /\ Count("files_download_to_file", PathOf(i)) = 1
                 /\ NoFileError(i)
            /\ (~Universe[i].is_file /\ Reachable(i) /\ ~IsDeadFolder(i)) =>
                 /\ Count("ensure_directory_exists", PathOf(i)) = 1
                 /\ Count("process_dropbox_folder", PathOf(i)) = 1

C4_Witness ==
    /\ Done
    /\ faulty = {}
    /\ {4, 5, 8, 9} \subseteq present
    /\ Count("files_list_folder_continue", PathOf(4)) = 1
    /\ Count("files_download_to_file", PathOf(9)) = 1
    /\ Count("ensure_directory_exists", PathOf(8)) = 1

\* C5: a folder named "DEAD file", on the first page or a later one and at
\* any depth, gets no local directory, is never listed, and nothing below
\* it is downloaded, while the entries that follow it in its folder are
\* still processed.
C5_DeadFileSkipped ==
    /\ \A k \in 1..Len(trace) : \A i \in present :
         trace[k].path = PathOf(i) =>
            /\ ~UnderDead(i)
            /\ IsDeadFolder(i) => trace[k].op = "skip"
    /\ \A i \in present :
         (IsDeadFolder(i) \/ UnderDead(i)) =>
            /\ MirrorDir(i) \notin dirs
            /\ \A f \in files : f[2] # PathOf(i)
    /\ Done =>
         \A i \in present : \A j \in present :
            ( /\ IsDeadFolder(i)
              /\ Count("skip", PathOf(i)) = 1
              /\ Universe[j].parent = Universe[i].parent
              /\ j > i
              /\ Intact(Universe[i].parent) ) => Processed(j)

C5_Witness ==
    /\ Done
    /\ {4, 5, 6, 8} \subseteq present
    /\ \E k \in 1..Len(trace) : \E l \in 1..Len(trace) :
         /\ k < l
         /\ trace[k] = Call("files_list_folder_continue", PathOf(4), <<>>)
         /\ trace[l] = Call("skip", PathOf(6), <<>>)
    /\ Processed(8)

\* C6: when processing one entry fails (files_get_metadata or
\* files_download_to_file raises for a file, directory creation fails for a
\* folder), every other entry is still processed: with failures of entries
\* only, each reachable entry is processed once, and each file that has no
\* failure of its own and no failed directory above it lands where it would
\* without any failure.
C6_EntryFailureIsolated ==
    (Done /\ NoListFaults) =>
        \A i \in present :
            Reachable(i) =>
               /\ Processed(i)
               /\ ( /\ Universe[i].is_file
                    /\ <<"files_get_metadata", i>> \notin faulty
                    /\ <<"files_download_to_file", i>> \notin faulty
                    /\ \A f \in faulty : f[1] # "makedirs" ) =>
                      /\ NoFileError(i)
                      /\ \E k \in 1..Len(trace) :
                           trace[k] = Call("files_download_to_file", PathOf(i),
                                           MirrorPath(i))

C6_Witness ==
    /\ Done
    /\ faulty = {<<"files_download_to_file", 1>>, <<"files_get_metadata", 5>>}
    /\ {1, 4, 5, 10} \subseteq present
    /\ Len(errors) = 3
    /\ <<MirrorPath(10), PathOf(10)>> \in files
    /\ Cardinality(files) = 1

\* the calls a run makes for the entries of a folder when every entry comes
\* back in one page: per entry, in listing order, the download, the skip,
\* or the directory creation and the recursion with what it does
RECURSIVE OnePageCalls(_, _)
OnePageCalls(ch, local_dir) ==
    IF ch = <<>> THEN <<>>
    ELSE LET i == Head(ch)
             d == local_dir \o <<"/">> \o Universe[i].name
         IN  ( IF Universe[i].is_file
               THEN <<Call("download_and_rename_file", PathOf(i), local_dir)>>
               ELSE IF IsDeadFolder(i)
               THEN <<Call("skip", PathOf(i), <<>>)>>
               ELSE << Call("ensure_directory_exists", PathOf(i), d),
                       Call("process_dropbox_folder", PathOf(i), d) >>
                    \o OnePageCalls(Children(i), d) )
             \o OnePageCalls(Tail(ch), local_dir)

IsEntryCall(c) ==
    c.op \in {"download_and_rename_file", "skip", "ensure_directory_exists",
              "process_dropbox_folder"}

\* C7: however the entries of a folder are split over the first page and
\* continuation pages, the same per-entry actions happen in the same order
\* as with a single page, no entry dropped or taken twice, and a
\* continuation page is fetched only while has_more is true.
C7_PaginationTransparent ==
    /\ [](( Done /\ NoListFaults ) =>
            SelectSeq(trace, IsEntryCall) = OnePageCalls(Children(0), LocalRoot))
    /\ [][ ( /\ Len(trace') > Len(trace)
             /\ trace'[Len(trace')].op = "files_list_folder_continue" )
           => ( stack # <<>> /\ Top.has_more /\ Top.page = <<>> ) ]_vars

C7_Witness ==
    /\ Done
    /\ NoListFaults
    /\ Count("files_list_folder_continue", StartPath) = 2
    /\ {1, 4, 5, 11} \subseteq present
    /\ Count("download_and_rename_file", PathOf(11)) = 1

\* C8: when listing a folder fails (the first page or a later one),
\* process_dropbox_folder returns for that folder only, without raising:
\* the step that prints the folder's message ends the innermost call and
\* leaves the calls around it in place, and at the end of the run every
\* entry of a visited folder whose own listing did not fail has been
\* processed, the entries after the failed folder included.
C8_ListingFailureLocal ==
    /\ [](Done =>
            \A i \in present :
                (Visited(Universe[i].parent) /\ Intact(Universe[i].parent))
                    => Processed(i))
    /\ [][ ( /\ Len(errors') > Len(errors)
             /\ errors'[Len(errors')].kind = "folder" )
           => ( stack # <<>> /\ stack' = Tail(stack) ) ]_vars

C8_Witness ==
    /\ Done
    /\ {4, 5, 8, 10} \subseteq present
    /\ faulty = {<<"files_list_folder", 8>>}
    /\ Visited(8)
    /\ ~Intact(8)
    /\ Processed(10)
    /\ \E f \in files : f[2] = PathOf(10)

\* C9: the local directory created for a folder that is not skipped is
\* local_dir joined with the name the naming rule gives the folder: its
\* base name if that carries a date prefix, else eight digits, one space
\* and the base name.
C9_FolderDirRenamed ==
    \A k \in 1..Len(trace) :
        trace[k].op = "ensure_directory_exists" =>
            LET b == Basename(trace[k].path)
                l == Basename(trace[k].local)
            IN  IF DatePattern(b) THEN l = b
                ELSE /\ Len(l) = 9 + Len(b)
                     /\ \A c \in 1..8 : IsDigit(l[c])
                     /\ l[9] = " "
                     /\ SubSeq(l, 10, Len(l)) = b

(***************************************************************************)
(* Path resolution: clean_dropbox_path and find_folder_path, as main      *)
(* calls them before process_dropbox_folder                                *)
(***************************************************************************)
\* most entries in the listing of the remote root
MaxRoot == 2

UpperLetters == <<"A", "B", "C", "D", "E", "F", "G", "H", "I", "J", "K", "L", "M", "N", "O", "P", "Q", "R", "S", "T", "U", "V", "W", "X", "Y", "Z">>
LowerLetters == <<"a", "b", "c", "d", "e", "f", "g", "h", "i", "j", "k", "l", "m", "n", "o", "p", "q", "r", "s", "t", "u", "v", "w", "x", "y", "z">>

\* str.lower and str.upper
LowerStr(s) ==
    [k \in 1..Len(s) |->
        IF \E j \in 1..26 : UpperLetters[j] = s[k]
        THEN LowerLetters[CHOOSE j \in 1..26 : UpperLetters[j] = s[k]]
        ELSE s[k]]

UpperStr(s) ==
    [k \in 1..Len(s) |->
        IF \E j \in 1..26 : LowerLetters[j] = s[k]
        THEN UpperLetters[CHOOSE j \in 1..26 : LowerLetters[j] = s[k]]
        ELSE s[k]]

\* str.startswith
StartsWith(s, prefix) ==
    Len(s) >= Len(prefix) /\ SubSeq(s, 1, Len(prefix)) = prefix

\* positions at which sub occurs in s
Occurrences(s, sub) ==
    {k \in 1..(Len(s) - Len(sub) + 1) : SubSeq(s, k, k + Len(sub) - 1) = sub}

\* the operator "in" on strings
Contains(s, sub) == sub = <<>> \/ Occurrences(s, sub) # {}

FirstOccurrence(s, sub) ==
    CHOOSE k \in Occurrences(s, sub) : \A j \in Occurrences(s, sub) : k <= j

\* s.split(sep)[-1] for a non-empty sep
RECURSIVE AfterLastSplit(_, _)
AfterLastSplit(s, sep) ==
    IF Occurrences(s, sep) = {} THEN s
    ELSE AfterLastSplit(SubSeq(s, FirstOccurrence(s, sep) + Len(sep), Len(s)), sep)

\* s.replace(old, new)
RECURSIVE ReplaceAll(_, _, _)
ReplaceAll(s, old, new) ==
    IF Occurrences(s, old) = {} THEN s
    ELSE LET k == FirstOccurrence(s, old)
         IN  SubSeq(s, 1, k - 1) \o new
             \o ReplaceAll(SubSeq(s, k + Len(old), Len(s)), old, new)

\* s.rstrip('/')
RECURSIVE RStripSlash(_)
RStripSlash(s) ==
    IF EndsWithSlash(s) THEN RStripSlash(SubSeq(s, 1, Len(s) - 1)) ELSE s

\* [p for p in s.split('/') if p]
RECURSIVE PathParts(_)
PathParts(s) ==
    IF s = <<>> THEN <<>>
    ELSE IF Occurrences(s, <<"/">>) = {} THEN <<s>>
    ELSE LET k == FirstOccurrence(s, <<"/">>)
             rest == PathParts(SubSeq(s, k + 1, Len(s)))
         IN  IF k = 1 THEN rest ELSE <<SubSeq(s, 1, k - 1)>> \o rest

\* '/' + '/'.join(parts)
RECURSIVE SlashJoin(_)
SlashJoin(parts) ==
    IF parts = <<>> THEN <<"/">>
    ELSE IF Len(parts) = 1 THEN <<"/">> \o parts[1]
    ELSE <<"/">> \o parts[1] \o SlashJoin(Tail(parts))

UrlMarker == <<"d", "r", "o", "p", "b", "o", "x", ".", "c", "o", "m", "/", "h", "o", "m", "e">>
AllFilesPrefix == <<"/", "A", "l", "l", " ", "f", "i", "l", "e", "s">>

clean_dropbox_path(arg) ==
    LET after_url == IF Contains(arg, UrlMarker) THEN AfterLastSplit(arg, UrlMarker)
                     ELSE arg
        decoded == ReplaceAll(after_url, <<"%", "2", "0">>, <<" ">>)
        stripped == RStripSlash(decoded)
        rooted == IF StartsWith(stripped, <<"/">>) THEN stripped
                  ELSE <<"/">> \o stripped
        path == IF StartsWith(rooted, AllFilesPrefix)
                THEN SubSeq(rooted, 11, Len(rooted))
                ELSE rooted
        path_parts == PathParts(path)
    IN  IF Len(path_parts) > 0 THEN SlashJoin(path_parts) ELSE path

\* what files_get_metadata(path) gives: "folder", "file" or "raise"
KindOf(store, path) ==
    IF path \in DOMAIN store.kind THEN store.kind[path] ELSE "raise"

\* the paths find_folder_path looks up, in order: the exact path, then the
\* original, lower and upper case variations
Lookups(target_folder) ==
    LET path_parts == PathParts(target_folder)
    IN  << target_folder,
           SlashJoin(path_parts),
           SlashJoin([k \in 1..Len(path_parts) |-> LowerStr(path_parts[k])]),
           SlashJoin([k \in 1..Len(path_parts) |-> UpperStr(path_parts[k])]) >>

\* the first folder of the root listing whose path contains the target,
\* case-insensitively; <<>> when there is none
RECURSIVE RootMatch(_, _)
RootMatch(entries, target_folder) ==
    IF entries = <<>> THEN <<>>
    ELSE IF /\ Head(entries).is_folder
            /\ Contains(LowerStr(Head(entries).path_display), LowerStr(target_folder))
         THEN <<Head(entries).path_display>>
         ELSE RootMatch(Tail(entries), target_folder)

MetadataCall(path) == [op |-> "files_get_metadata", path |-> path]
RootListCall == [op |-> "files_list_folder", path |-> <<>>]

\* find_folder_path(dbx, target_folder): value is <<>> for None, else the
\* one-element sequence holding the path returned
\* variant: the lookups have no except clause
find_folder_path_no_except(store, target_folder) ==
    LET lookups == Lookups(target_folder)
    IN  IF KindOf(store, lookups[1]) = "raise"
        THEN [raised |-> TRUE, value |-> <<>>, calls |-> <<MetadataCall(lookups[1])>>]
        ELSE [raised |-> FALSE, value |-> <<lookups[1]>>,
              calls |-> <<MetadataCall(lookups[1])>>]

find_folder_path(store, target_folder) ==
    LET lookups == Lookups(target_folder)
        hits == {k \in 1..4 : KindOf(store, lookups[k]) = "folder"}
    IN  IF hits # {}
        THEN LET first == CHOOSE k \in hits : \A j \in hits : k <= j
             IN  [raised |-> FALSE, value |-> <<lookups[first]>>,
                  calls |-> [k \in 1..first |-> MetadataCall(lookups[k])]]
        ELSE [raised |-> FALSE,
              value |-> IF store.root_raises THEN <<>>
                        ELSE RootMatch(store.root, target_folder),
              calls |-> [k \in 1..4 |-> MetadataCall(lookups[k])] \o <<RootListCall>>]

\* the arguments a user may give
RawPaths ==
    { <<"/", "A", "b">>,
      <<"A", "b", "/">>,
      <<"/", "A", "l", "l", " ", "f", "i", "l", "e", "s">>,
      <<"h", "t", "t", "p", "s", ":", "/", "/", "w", "w", "w", ".", "d", "r", "o", "p", "b", "o", "x", ".", "c", "o", "m", "/", "h", "o", "m", "e", "/", "A", "l", "l", " ", "f", "i", "l", "e", "s", "/", "A", "%", "2", "0", "b">>,
      <<"/", "A", "l", "l", " ", "f", "i", "l", "e", "s", "A", "b">>,
      <<"/", "A", "b", "/", "/", "C", "/">> }

\* the paths the remote store may know
KnownPaths ==
    { <<"/", "A", "b">>, <<"/", "a", "b">>, <<"/", "A", "B">> }

\* the entries the listing of the remote root may hold
RootEntries ==
    { [is_folder |-> TRUE, path_display |-> <<"/", "C">>],
      [is_folder |-> FALSE, path_display |-> <<"/", "A", "b">>],
      [is_folder |-> TRUE, path_display |-> <<"/", "a", "b", "C">>],
      [is_folder |-> TRUE, path_display |-> <<"/", "a", " ", "B">>] }

RECURSIVE RootListings(_)
RootListings(n) ==
    IF n = 0 THEN {<<>>}
    ELSE LET shorter == RootListings(n - 1)
         IN  shorter \cup {Append(l, e) : l \in shorter, e \in RootEntries}

ResolutionStores ==
    [ kind : [KnownPaths -> {"raise", "file", "folder"}],
      root_raises : BOOLEAN,
      root : RootListings(MaxRoot) ]

PathInit ==
    /\ IdleTraversal
    /\ n_pc = "idle"
    /\ n_path = <<>>
    /\ n_is_folder = FALSE
    /\ n_metadata = [server_modified |-> NoDate]
    /\ n_dbx = <<>>
    /\ n_now = Date1
    /\ n_local_dir = <<>>
    /\ n_out = <<>>
    /\ p_pc = "start"
    /\ p_arg \in RawPaths
    /\ p_store \in ResolutionStores
    /\ p_clean = <<>>
    /\ p_found = <<>>
    /\ p_calls = <<>>
    /\ p_path = <<>>

\* dropbox_path = clean_dropbox_path(args.dropbox_folder)
CleanPath ==
    /\ p_pc = "start"
    /\ p_clean' = clean_dropbox_path(p_arg)
    /\ p_pc' = "cleaned"
    /\ UNCHANGED <<p_arg, p_store, p_found, p_calls, p_path>>
    /\ UNCHANGED tvars
    /\ UNCHANGED nvars

\* found_path = find_folder_path(dbx, dropbox_path); if found_path:
\* dropbox_path = found_path.  An exception ends main in its except clause.
FindFolderPath ==
    /\ p_pc = "cleaned"
    /\ LET r == find_folder_path(p_store, p_clean)
       IN  /\ p_calls' = r.calls
           /\ p_found' = r.value
           /\ IF r.raised
              THEN /\ p_pc' = "aborted"
                   /\ p_path' = p_path
              ELSE /\ p_pc' = "resolved"
                   /\ p_path' = IF r.value # <<>> /\ r.value[1] # <<>>
                                THEN r.value[1]
                                ELSE p_clean
    /\ UNCHANGED <<p_arg, p_store, p_clean>>
    /\ UNCHANGED tvars
    /\ UNCHANGED nvars

PathNext == CleanPath \/ FindFolderPath

PathSpec == PathInit /\ [][PathNext]_vars

(***************************************************************************)
(* Properties of path resolution (checked under PathSpec)                  *)
(***************************************************************************)
\* the root listing holds a folder at position j whose path contains the
\* target, case-insensitively
RootHit(j) ==
    /\ p_store.root[j].is_folder
    /\ Contains(LowerStr(p_store.root[j].path_display), LowerStr(p_clean))

MaxListed == 2

\* the clock, later than every timestamp of the store
Today == <<2026, 11, 4>>

ListedEntries ==
    { [is_file |-> TRUE, server_modified |-> Date1],
      [is_file |-> TRUE, server_modified |-> Date2],
      [is_file |-> FALSE, server_modified |-> NoDate] }

RECURSIVE Listings(_)
Listings(n) ==
    IF n = 0 THEN {<<>>}
    ELSE LET shorter == Listings(n - 1)
         IN  shorter \cup {Append(l, e) : l \in shorter, e \in ListedEntries}

\* a listing goes on to later pages only after a first page with entries
DateStores ==
    { d \in [ list_raises : BOOLEAN,
              entries : Listings(MaxListed),
              later : Listings(MaxListed),
              meta_raises : BOOLEAN,
              client_modified : {<<>>, <<Date3>>},
              shared_raises : BOOLEAN,
              time_created : {<<>>, <<Date2>>} ] :
        d.later # <<>> => d.entries # <<>> }

DateInit ==
    /\ IdleTraversal
    /\ IdleResolution
    /\ n_pc = "folder"
    /\ n_path = StartPath
    /\ n_is_folder = TRUE
    /\ n_metadata = [server_modified |-> NoDate]
    /\ n_dbx \in {<<d>> : d \in DateStores}
    /\ n_now = Today
    /\ n_local_dir = <<>>
    /\ n_out = <<>>

\* date_obj = get_folder_creation_date(dbx, path)
FolderDate ==
    /\ n_pc = "folder"
    /\ n_out' = <<Returns(get_folder_creation_date(n_dbx[1], n_now))>>
    /\ n_pc' = "dated"
    /\ UNCHANGED <<n_path, n_is_folder, n_metadata, n_dbx, n_now, n_local_dir>>
    /\ UNCHANGED tvars
    /\ UNCHANGED pvars

DateNext == FolderDate

DateSpec == DateInit /\ [][DateNext]_vars

(***************************************************************************)
(* Properties of the folder date (checked under DateSpec)                  *)
(***************************************************************************)
\* the last-modified timestamps of the folder's direct file children, on
\* whatever page they are listed
ChildFileDates ==
    LET all == n_dbx[1].entries \o n_dbx[1].later
    IN  {all[k].server_modified : k \in {j \in 1..Len(all) : all[j].is_file}}

\* C12: get_folder_creation_date returns the earliest last-modified
\* timestamp among all direct file children of the folder whenever there is
\* one, however the listing is paginated; only when there is none the
\* folder's own metadata timestamp; and only when that is unavailable, or a
\* remote call fails, the current clock.
C12_EarliestChildDate ==
    n_pc = "dated" =>
        LET store == n_dbx[1]
            result == n_out[1].value
        IN  IF store.list_raises THEN result = n_now
            ELSE IF ChildFileDates # {}
            THEN /\ result \in ChildFileDates
                 /\ \A d \in ChildFileDates : ~DateLess(d, result)
            ELSE IF store.meta_raises THEN result = n_now
            ELSE IF store.client_modified # <<>> THEN result = store.client_modified[1]
            ELSE IF ~store.shared_raises /\ store.time_created # <<>>
                 THEN result = store.time_created[1]
            ELSE result = n_now

(***************************************************************************)
(* Local paths of one run (checked under Spec)                             *)
(***************************************************************************)
\* C13: within one run two distinct remote files are never downloaded to
\* the same local path: the local paths handed to files_download_to_file
\* for two distinct file entries differ, so that no download overwrites a
\* file written earlier in the run.
C13_NoLocalCollision ==
    \A k \in 1..Len(trace) : \A l \in 1..Len(trace) :
        ( /\ trace[k].op = "files_download_to_file"
          /\ trace[l].op = "files_download_to_file"
          /\ trace[k].path # trace[l].path ) => trace[k].local # trace[l].local

====
